---------------------------- MODULE Spec2Model ----------------------------
(***************************************************************************)
(* A model of the LuaJIT block of PothosLuaJIT (src/LuaJITBlock.cpp,       *)
(* src/LuaJITBlock.hpp, src/ScopedDynLib.hpp): one block instance, its     *)
(* embedded Lua state, its preloaded libraries and its ports, driven by a  *)
(* host that calls setSource, setPreloadedLibraries, activate, deactivate  *)
(* and work; and of the configuration loader of src/LuaJITConfLoader.cpp   *)
(* with the plugin registry it writes.                                     *)
(***************************************************************************)
EXTENDS Integers, Sequences, FiniteSets

(***************************************************************************)
(* Bounds of the model.                                                    *)
(***************************************************************************)
\* the largest number of input ports of a block
MaxInputs == 2
\* the largest number of output ports of a block
MaxOutputs == 1
\* the number of elements the host feeds to every input port in a run
StreamLen == 2
\* the longest list handed to setPreloadedLibraries
MaxPaths == 2
\* the most keys a configuration handed to the conf loader lacks
MaxMissing == 2
\* the host stops activating once the block would hold more library handles
\* than this: a full list on top of what a failed activation left behind
MaxHandles == MaxPaths + 1

(***************************************************************************)
(* The host's inputs: scripts, sources, function names, library paths.     *)
(***************************************************************************)
\* Script texts.  S1 and S2 compile and return a table; SBad does not compile.
Scripts == {"S1", "S2", "SBad"}

\* Script texts that assign a global variable before they return their table:
\* SGlobal assigns X, SClobber assigns BlockEnv.
GlobalScripts == {"SGlobal", "SClobber"}

\* The global names the chunk text assigns when it runs.
GlobalsAssigned(text) ==
    CASE text = "SGlobal" -> {"X"}
      [] text = "SClobber" -> {"BlockEnv"}
      [] OTHER -> {}

\* Function (field) names a caller may ask for.
Names == {"f", "g", "h"}

\* The Lua type of field name of the table the chunk text returns
\* ("nil": the table has no such field).
FieldType(text, name) ==
    CASE text = "S1" /\ name = "f" -> "function"
      [] text = "S1" /\ name = "g" -> "number"
      [] text = "S2" /\ name = "f" -> "function"
      [] text = "S2" /\ name = "g" -> "function"
      [] text = "S2" /\ name = "h" -> "string"
      [] text \in GlobalScripts /\ name = "f" -> "function"
      [] OTHER -> "nil"

\* A source string handed to setSource: whether Poco::Path(s).getExtension()
\* is "lua", whether Poco::File(s) exists, the script the string itself is
\* when it is read as Lua text, and the script that is the content of the
\* file of that name (kept equal to text when no such file exists).
AllSources ==
    {s \in [ext : BOOLEAN, exists : BOOLEAN, text : Scripts, content : Scripts] :
        ~s.exists => s.content = s.text}

\* The sources the host hands over in the plain runs: one script per source
\* (the content of the file when the string names one, the string itself
\* otherwise).  Of a path that does not exist only one is kept.
Sources ==
    {s \in AllSources :
        /\ s.content = s.text
        /\ (s.ext /\ ~s.exists) => s.text = "S1"}

\* Literal sources whose script assigns globals, and a plain one after them.
GlobalSources ==
    {[ext |-> FALSE, exists |-> FALSE, text |-> t, content |-> t] :
        t \in GlobalScripts \cup {"S1"}}

\* Sources of the script S1, whose function f copies input i to output i.
CopySources == {s \in Sources : s.text = "S1"}

\* The keys of a configuration mapping, and those the conf loader requires of
\* the configuration file.
ConfKeys == {"confFilePath", "factory", "source", "function", "input_types",
             "output_types", "doc_source"}
RequiredKeys == {"factory", "source", "function", "input_types", "output_types"}

\* The values of the key factory: two plugin paths and a string that is none.
Factories == {"/my/block", "/other/block", "not a path"}
ValidPluginPath(factory) == factory # "not a path"

\* A configuration mapping: the keys it has, the value of factory, whether
\* the file source names exists, and whether the documentation parsed from
\* a file has an entry of the factory.  What nothing reads is kept fixed.
Configs ==
    {c \in [keys : SUBSET ConfKeys, factory : Factories,
            sourceExists : BOOLEAN, docHasFactory : BOOLEAN] :
        /\ Cardinality(ConfKeys \ c.keys) <= MaxMissing
        /\ "factory" \notin c.keys => c.factory = "/my/block"
        /\ "source" \notin c.keys => ~c.sourceExists
        /\ ~c.sourceExists => ~c.docHasFactory}

\* Library paths: Poco::SharedLibrary can load libA, and cannot load libMissing.
LibPaths == {"libA", "libMissing"}

Loadable(library) == library = "libA"

RECURSIVE SeqsUpTo(_, _)
SeqsUpTo(S, n) ==
    IF n = 0 THEN {<<>>}
    ELSE LET shorter == SeqsUpTo(S, n - 1)
         IN  shorter \cup {Append(q, x) : q \in {r \in shorter : Len(r) = n - 1}, x \in S}

PathLists == SeqsUpTo(LibPaths, MaxPaths)

(***************************************************************************)
(* Error names (the exception thrown and its message, by taxonomy name).   *)
(***************************************************************************)
NoError == "none"
\* Pothos::RuntimeException("Cannot set ... for active block.")
InvalidState == "InvalidState"
\* Pothos::FileNotFoundException(luaSource)
SourceNotFound == "SourceNotFound"
\* Pothos::Exception(err.what()) out of safeLuaCall around a load
ScriptLoadError == "ScriptLoadError"
\* Pothos::InvalidArgumentException("The given field (..) does not exist.")
EntryPointNotFound == "EntryPointNotFound"
\* Pothos::InvalidArgumentException("The given field (..) must be a function. Found ..")
EntryPointNotCallable == "EntryPointNotCallable"
\* Pothos::Exception("LuaJIT function not set.")
NoFunctionBound == "NoFunctionBound"
\* Pothos::Exception(err.what()) out of safeLuaCall around the block function
ScriptExecutionError == "ScriptExecutionError"
\* Poco::LibraryLoadException out of the Poco::SharedLibrary constructor
NativeLibraryLoadError == "NativeLibraryLoadError"
\* Pothos::Exception("No ...") of the conf loader
MissingKey == "MissingKey"
\* the exception of Pothos::PluginPath for a string that is no plugin path
InvalidFactoryPath == "InvalidFactoryPath"
\* the exception of BlockDescriptionParser::getJSONObject for a factory the
\* parsed file does not document
DocNotFound == "DocNotFound"

(***************************************************************************)
(* State.                                                                  *)
(***************************************************************************)
VARIABLES
    nIn,            \* number of input ports (inputTypes.size())
    nOut,           \* number of output ports (outputTypes.size())
    functionSet,    \* _functionSet
    blockFcn,       \* _blockFcn: NoFcn, or the function name of script src
    userEnv,        \* _lua["BlockEnv"]["UserEnv"]: NoEnv, or the script loaded
    dynLibPaths,    \* _dynLibPaths
    dynLibs,        \* _dynLibs: the path of each ScopedDynLib held
    loadedCount,    \* per library path, the Poco::SharedLibrary objects loaded
    active,         \* Pothos::Block::isActive()
    consumed,       \* per input port, the elements consumed so far
    produced,       \* per output port, the elements produced so far
    okElems,        \* sum of elems over the work() calls whose function returned
    everBound,      \* a setSource call has returned without throwing
    last,           \* the last call made on the block and how it ended
    globals,        \* the names user sources have assigned in _lua's globals
    obs,            \* the arguments of the last call, in the runs that record them
    outData,        \* per output port, the elements produced, in the runs that record them
    registry,       \* the paths registered in Pothos::PluginRegistry
    confLast,       \* the last LuaJITConfLoader call and how it ended
    registeredCalls,\* the calls of the block registered with registerCall
    other           \* the script state of another block of the process

nodeVars == <<functionSet, blockFcn, userEnv, dynLibPaths, dynLibs, loadedCount,
              globals>>
portVars == <<consumed, produced, okElems>>
blockVars == <<nIn, nOut, functionSet, blockFcn, userEnv, dynLibPaths, dynLibs,
               loadedCount, active, consumed, produced, okElems, everBound, last,
               globals>>
confVars == <<registry, confLast, registeredCalls, other>>
vars == <<nIn, nOut, functionSet, blockFcn, userEnv, dynLibPaths, dynLibs,
          loadedCount, active, consumed, produced, okElems, everBound, last,
          globals, obs, outData, registry, confLast, registeredCalls, other>>

\* The two calls that change what a block runs.
Setters == {"setSource", "setPreloadedLibraries"}

NoFcn == [src |-> "none", name |-> "none"]
NoEnv == "none"

\* The class of the exception each error is thrown as; the two script errors
\* are thrown by safeLuaCall.
ExceptionOf(err) ==
    CASE err = NoError -> ""
      [] err = InvalidState -> "Pothos::RuntimeException"
      [] err = SourceNotFound -> "Pothos::FileNotFoundException"
      [] err \in {EntryPointNotFound, EntryPointNotCallable}
            -> "Pothos::InvalidArgumentException"
      [] err = NativeLibraryLoadError -> "Poco::LibraryLoadException"
      [] OTHER -> "Pothos::Exception"

\* What a call left behind for its caller: the operation, the error thrown
\* (NoError when it returned), the error's detail, and for work() the element
\* count the host offered, the invocations of the block function it made and
\* whether the block function raised, for a call that clears _dynLibs the
\* number of handles it destroyed, and for setSource the script whose chunk
\* it ran to the end and the field it then looked up in the result.
\* exception is the class of the exception that reached the caller.
Outcome(op, err, detail, elems, calls, raised) ==
    [op |-> op, err |-> err, exception |-> ExceptionOf(err), detail |-> detail,
     elems |-> elems, calls |-> calls, raised |-> raised, released |-> 0,
     paths |-> <<>>,
     loaded |-> NoEnv, lookedUp |-> "none"]

Returned(op) == Outcome(op, NoError, "", 0, <<>>, FALSE)
Threw(op, err, detail) == Outcome(op, err, detail, 0, <<>>, FALSE)
Cleared(op, n) == [Returned(op) EXCEPT !.released = n]
\* The outcome of a setPreloadedLibraries that took the list libraries.
Replaced(n, libraries) ==
    [Cleared("setPreloadedLibraries", n) EXCEPT !.paths = libraries]
Resolved(err, detail, text, name) ==
    [Threw("setSource", err, detail) EXCEPT !.loaded = text, !.lookedUp = name]
\* The outcome of a call that ended in the exception r of safeLuaCall.
Escaped(outcome, r) == [outcome EXCEPT !.exception = r.exception, !.detail = r.what]

\* No call observed, and no protected-call result.
NoRes == [kind |-> "none", value |-> NoEnv, what |-> ""]
NoObs ==
    [op |-> "none",
     source |-> [ext |-> FALSE, exists |-> FALSE, text |-> "none", content |-> "none"],
     name |-> "none", elems |-> 0, res |-> NoRes]

\* The registry before any configuration is loaded: the block's own factory
\* (the static registration at the end of LuaJITBlock.cpp).
\* A registry path is the pair of the prefix it is registered under and the
\* factory path.
BlockFactoryPath == <<"/blocks", "/blocks/luajit_block">>
NoLoad == [op |-> "none", err |-> NoError, detail |-> "", added |-> {},
           docFile |-> "none",
           config |-> [keys |-> {}, factory |-> "none", sourceExists |-> FALSE,
                       docHasFactory |-> FALSE]]

(***************************************************************************)
(* Construction.                                                           *)
(***************************************************************************)
\* A faulty constructor: the setters are registered whatever exposeSetters is.
LuaJITBlock_alwaysExposed(inputs, outputs, exposeSetters) ==
    [nIn |-> inputs, nOut |-> outputs,
     functionSet |-> FALSE, blockFcn |-> NoFcn, userEnv |-> NoEnv,
     dynLibPaths |-> <<>>, dynLibs |-> <<>>,
     loadedCount |-> [p \in LibPaths |-> 0],
     active |-> FALSE,
     consumed |-> [i \in 1..inputs |-> 0],
     produced |-> [j \in 1..outputs |-> 0],
     okElems |-> 0, everBound |-> FALSE,
     last |-> Returned("make"),
     globals |-> {},
     registeredCalls |-> Setters]

\* The members of the block LuaJITBlock(inputTypes, outputTypes,
\* exposeSetters) constructs, with inputs input ports and outputs output
\* ports: the setters are registered as calls when exposeSetters is true.
LuaJITBlock(inputs, outputs, exposeSetters) ==
    [nIn |-> inputs, nOut |-> outputs,
     functionSet |-> FALSE, blockFcn |-> NoFcn, userEnv |-> NoEnv,
     dynLibPaths |-> <<>>, dynLibs |-> <<>>,
     loadedCount |-> [p \in LibPaths |-> 0],
     active |-> FALSE,
     consumed |-> [i \in 1..inputs |-> 0],
     produced |-> [j \in 1..outputs |-> 0],
     okElems |-> 0, everBound |-> FALSE,
     last |-> Returned("make"),
     globals |-> {},
     registeredCalls |-> IF exposeSetters THEN Setters ELSE {}]

\* No other block has been made.
NoNode == [made |-> FALSE, globals |-> {}, userEnv |-> NoEnv, blockFcn |-> NoFcn,
           functionSet |-> FALSE, dynLibPaths |-> <<>>, dynLibs |-> <<>>]

\* The block under observation is block.
Holds(block) ==
    /\ nIn = block.nIn
    /\ nOut = block.nOut
    /\ functionSet = block.functionSet
    /\ blockFcn = block.blockFcn
    /\ userEnv = block.userEnv
    /\ dynLibPaths = block.dynLibPaths
    /\ dynLibs = block.dynLibs
    /\ loadedCount = block.loadedCount
    /\ active = block.active
    /\ consumed = block.consumed
    /\ produced = block.produced
    /\ okElems = block.okElems
    /\ everBound = block.everBound
    /\ last = block.last
    /\ globals = block.globals
    /\ registeredCalls = block.registeredCalls

\* The state in which the block just constructed is the only block, nothing
\* has been recorded and no configuration has been loaded.
Constructed(inputs, outputs, exposeSetters) ==
    /\ Holds(LuaJITBlock(inputs, outputs, exposeSetters))
    /\ obs = NoObs
    /\ outData = [j \in 1..outputs |-> <<>>]
    /\ registry = {BlockFactoryPath}
    /\ confLast = NoLoad
    /\ other = NoNode

\* The block under observation becomes block.
Becomes(block) ==
    /\ nIn' = block.nIn
    /\ nOut' = block.nOut
    /\ functionSet' = block.functionSet
    /\ blockFcn' = block.blockFcn
    /\ userEnv' = block.userEnv
    /\ dynLibPaths' = block.dynLibPaths
    /\ dynLibs' = block.dynLibs
    /\ loadedCount' = block.loadedCount
    /\ active' = block.active
    /\ consumed' = block.consumed
    /\ produced' = block.produced
    /\ okElems' = block.okElems
    /\ everBound' = block.everBound
    /\ last' = block.last
    /\ globals' = block.globals
    /\ registeredCalls' = block.registeredCalls

\* A block made by the factory /blocks/luajit_block, which binds
\* exposeSetters to true.
Init ==
    \E inputs \in 0..MaxInputs, outputs \in 0..MaxOutputs :
        Constructed(inputs, outputs, TRUE)

\* A block with as many output ports as input ports, and at least one.
InitData == \E ports \in 1..MaxInputs : Constructed(ports, ports, TRUE)

isActive == active

(***************************************************************************)
(* The protected-call boundary.                                            *)
(***************************************************************************)
\* What a protected call of script code comes to inside sol: a valid result
\* carrying a value, an invalid result carrying the runtime's message, or a
\* thrown sol::error carrying it.
LuaValid(value) == [kind |-> "valid", value |-> value, what |-> ""]
LuaInvalid(what) == [kind |-> "invalid", value |-> NoEnv, what |-> what]
LuaThrown(what) == [kind |-> "sol::error", value |-> NoEnv, what |-> what]

\* What safeLuaCall comes to when nothing is thrown and nothing returned.
NotThrown == [threw |-> FALSE, exception |-> "", what |-> "", value |-> NoEnv]

\* A faulty safeLuaCall: the validity of the result is never looked at.
safeLuaCall_swallow(res) ==
    [threw |-> FALSE, exception |-> "", what |-> "", value |-> res.value]

\* A faulty safeLuaCall: the catch of sol::error is missing, so that a thrown
\* sol::error leaves the call as it is.
safeLuaCall_noCatch(res) ==
    IF res.kind = "valid"
    THEN [threw |-> FALSE, exception |-> "", what |-> "", value |-> res.value]
    ELSE [threw |-> TRUE,
          exception |-> IF res.kind = "sol::error" THEN "sol::error"
                        ELSE "Pothos::Exception",
          what |-> res.what, value |-> NoEnv]

\* safeLuaCall: the result when it is valid, and otherwise a Pothos::Exception
\* carrying err.what(), for an invalid result and for a thrown sol::error alike.
safeLuaCall(res) ==
    IF res.kind = "valid"
    THEN [threw |-> FALSE, exception |-> "", what |-> "", value |-> res.value]
    ELSE [threw |-> TRUE, exception |-> "Pothos::Exception", what |-> res.what,
          value |-> NoEnv]

\* Loading and running the chunk of a script text: the table it returns, or
\* the compiler's message.
RunChunk(text) ==
    IF text = "SBad" THEN LuaInvalid("syntax error") ELSE LuaValid(text)

(***************************************************************************)
(* setSource                                                               *)
(***************************************************************************)
\* A faulty setSource: a path with the extension "lua" that does not exist is
\* taken for literal text.
LoadSource_fallback(luaSource) ==
    LET fromFile == luaSource.ext /\ luaSource.exists
        r == safeLuaCall(RunChunk(IF fromFile THEN luaSource.content
                                  ELSE luaSource.text))
    IN  [err |-> IF r.threw THEN ScriptLoadError ELSE NoError,
         how |-> IF fromFile THEN "file" ELSE "literal",
         value |-> r.value, thrown |-> r]

\* A faulty setSource: the path of the file is handed to the runtime as the
\* script text.
LoadSource_pathAsText(luaSource) ==
    IF luaSource.ext /\ ~luaSource.exists
    THEN [err |-> SourceNotFound, how |-> "file", value |-> NoEnv,
          thrown |-> NotThrown]
    ELSE LET r == safeLuaCall(RunChunk(luaSource.text))
         IN  [err |-> IF r.threw THEN ScriptLoadError ELSE NoError,
              how |-> IF luaSource.ext THEN "file" ELSE "literal",
              value |-> r.value, thrown |-> r]

\* Lines 126-140: the source is a file when its extension is "lua", and must
\* then exist; any other string is literal script text.  The outcome is the
\* error thrown, and the value assigned to BlockEnv.UserEnv when none is.
LoadSource(luaSource) ==
    IF luaSource.ext
    THEN IF luaSource.exists
         THEN LET r == safeLuaCall(RunChunk(luaSource.content))
              IN  [err |-> IF r.threw THEN ScriptLoadError ELSE NoError,
                   how |-> "file", value |-> r.value, thrown |-> r]
         ELSE [err |-> SourceNotFound, how |-> "file", value |-> NoEnv,
               thrown |-> NotThrown]
    ELSE LET r == safeLuaCall(RunChunk(luaSource.text))
         IN  [err |-> IF r.threw THEN ScriptLoadError ELSE NoError,
              how |-> "literal", value |-> r.value, thrown |-> r]

\* A faulty lookup: any field that exists is bound, whatever its type.
LookupEntryPoint_noTypeCheck(env, functionName) ==
    IF FieldType(env, functionName) = "nil"
    THEN [err |-> EntryPointNotFound, detail |-> functionName, fcn |-> NoFcn]
    ELSE [err |-> NoError, detail |-> "",
          fcn |-> [src |-> env, name |-> functionName]]

\* Lines 142-155: the entry point is looked up in BlockEnv.UserEnv; it must
\* exist, and then be a function.  The outcome is the error thrown, its
\* detail (the type name found) and the function to bind.
LookupEntryPoint(env, functionName) ==
    LET type == FieldType(env, functionName)
    IN  IF type = "nil"
        THEN [err |-> EntryPointNotFound, detail |-> functionName, fcn |-> NoFcn]
        ELSE IF type # "function"
        THEN [err |-> EntryPointNotCallable, detail |-> type, fcn |-> NoFcn]
        ELSE [err |-> NoError, detail |-> "",
              fcn |-> [src |-> env, name |-> functionName]]

\* Lines 126-157, the body of setSource after the isActive() guard.
setSourceIdle(luaSource, functionName) ==
    LET loaded == LoadSource(luaSource)
    IN  IF loaded.err # NoError
        THEN /\ last' = IF loaded.thrown.threw
                        THEN Escaped(Threw("setSource", loaded.err, ""), loaded.thrown)
                        ELSE Threw("setSource", loaded.err, "")
             /\ UNCHANGED <<userEnv, blockFcn, functionSet, everBound, globals>>
        ELSE /\ userEnv' = loaded.value
             /\ globals' = globals \cup GlobalsAssigned(loaded.value)
             /\ LET found == LookupEntryPoint(loaded.value, functionName)
                IN  IF found.err # NoError
                    THEN /\ last' = Resolved(found.err, found.detail,
                                              loaded.value, functionName)
                         /\ UNCHANGED <<blockFcn, functionSet, everBound>>
                    ELSE /\ blockFcn' = found.fcn
                         /\ functionSet' = TRUE
                         /\ everBound' = TRUE
                         /\ last' = Resolved(NoError, "", loaded.value, functionName)

\* A faulty setSource: the isActive() guard is missing.
setSource_noGuard(luaSource, functionName) ==
    /\ setSourceIdle(luaSource, functionName)
    /\ UNCHANGED <<nIn, nOut, dynLibPaths, dynLibs, loadedCount, active>>
    /\ UNCHANGED portVars

setSource(luaSource, functionName) ==
    /\ IF isActive
       THEN /\ last' = Threw("setSource", InvalidState, "")
            /\ UNCHANGED <<userEnv, blockFcn, functionSet, everBound, globals>>
       ELSE setSourceIdle(luaSource, functionName)
    /\ UNCHANGED <<nIn, nOut, dynLibPaths, dynLibs, loadedCount, active>>
    /\ UNCHANGED portVars

(***************************************************************************)
(* Preloaded libraries                                                     *)
(***************************************************************************)
\* A faulty ~ScopedDynLib: the handles are views of one library object of the
\* process, and unloading one unloads the library for every holder.
Unload_shared(libs, count) ==
    [p \in DOMAIN count |->
        IF \E h \in 1..Len(libs) : libs[h] = p THEN 0 ELSE count[p]]

\* A faulty ~ScopedDynLib: the library is not unloaded.
Unload_leak(libs, count) == count

\* ~ScopedDynLib of every handle of libs: each unloads its library.
RECURSIVE Unload(_, _)
Unload(libs, count) ==
    IF libs = <<>> THEN count
    ELSE Unload(Tail(libs), [count EXCEPT ![Head(libs)] = @ - 1])

\* A faulty setPreloadedLibraries: the list is added to the pending one.
setPreloadedLibraries_append(libraries) ==
    /\ IF isActive
       THEN /\ last' = Threw("setPreloadedLibraries", InvalidState, "")
            /\ UNCHANGED <<dynLibs, dynLibPaths, loadedCount>>
       ELSE /\ dynLibs' = <<>>
            /\ loadedCount' = Unload(dynLibs, loadedCount)
            /\ dynLibPaths' = dynLibPaths \o libraries
            /\ last' = Replaced(Len(dynLibs), libraries)
    /\ UNCHANGED <<nIn, nOut, functionSet, blockFcn, userEnv, active, everBound,
                   globals>>
    /\ UNCHANGED portVars

setPreloadedLibraries(libraries) ==
    /\ IF isActive
       THEN /\ last' = Threw("setPreloadedLibraries", InvalidState, "")
            /\ UNCHANGED <<dynLibs, dynLibPaths, loadedCount>>
       ELSE /\ dynLibs' = <<>>
            /\ loadedCount' = Unload(dynLibs, loadedCount)
            /\ dynLibPaths' = libraries
            /\ last' = Replaced(Len(dynLibs), libraries)
    /\ UNCHANGED <<nIn, nOut, functionSet, blockFcn, userEnv, active, everBound,
                   globals>>
    /\ UNCHANGED portVars

\* std::transform(paths, back_inserter(libs), ScopedDynLib::load): the paths
\* are loaded in order and each handle is appended as it is made; the first
\* load that throws ends the loop with the handles made so far in place.
RECURSIVE LoadLibraries(_, _, _)
LoadLibraries(paths, libs, count) ==
    IF paths = <<>>
    THEN [err |-> NoError, detail |-> "", libs |-> libs, count |-> count]
    ELSE IF ~Loadable(Head(paths))
    THEN [err |-> NativeLibraryLoadError, detail |-> Head(paths),
          libs |-> libs, count |-> count]
    ELSE LoadLibraries(Tail(paths), Append(libs, Head(paths)),
                       [count EXCEPT ![Head(paths)] = @ + 1])

\* activate(), called by the host on a block that is not active; the block is
\* active once activate() has returned, and not when it threw.
activate ==
    /\ LET r == LoadLibraries(dynLibPaths, dynLibs, loadedCount)
       IN  /\ dynLibs' = r.libs
           /\ loadedCount' = r.count
           /\ active' = (r.err = NoError)
           /\ last' = IF r.err = NoError THEN Returned("activate")
                      ELSE Threw("activate", r.err, r.detail)
    /\ UNCHANGED <<nIn, nOut, functionSet, blockFcn, userEnv, dynLibPaths, everBound,
                   globals>>
    /\ UNCHANGED portVars

deactivate ==
    /\ dynLibs' = <<>>
    /\ loadedCount' = Unload(dynLibs, loadedCount)
    /\ active' = FALSE
    /\ last' = Cleared("deactivate", Len(dynLibs))
    /\ UNCHANGED <<nIn, nOut, functionSet, blockFcn, userEnv, dynLibPaths, everBound,
                   globals>>
    /\ UNCHANGED portVars

(***************************************************************************)
(* work                                                                    *)
(***************************************************************************)
\* workInfo.inputPointers and workInfo.outputPointers as the bootstrap gets
\* them: Lua tables indexed from 1, entry k holding the host's pointer of
\* port k-1.
inputPointers == [k \in 1..nIn |-> <<"in", k - 1>>]
outputPointers == [k \in 1..nOut |-> <<"out", k - 1>>]

\* A faulty bootstrap: fcn is called a second time.
CallBlockFunction_twice(fcn, inputBuffers, outputBuffers, elems) ==
    LET call == [fcn |-> fcn,
                 inputAddrs |-> [i \in 0..(Len(inputBuffers) - 1) |-> inputBuffers[i + 1]],
                 numInputs |-> Len(inputBuffers),
                 outputAddrs |-> [i \in 0..(Len(outputBuffers) - 1) |-> outputBuffers[i + 1]],
                 numOutputs |-> Len(outputBuffers),
                 elems |-> elems]
    IN  <<call, call>>

\* A faulty bootstrap: the pointers are copied without the shift from Lua's
\* 1-based to the FFI array's 0-based index.
CallBlockFunction_noShift(fcn, inputBuffers, outputBuffers, elems) ==
    << [fcn |-> fcn,
        inputAddrs |-> [i \in 1..Len(inputBuffers) |-> inputBuffers[i]],
        numInputs |-> Len(inputBuffers),
        outputAddrs |-> [i \in 1..Len(outputBuffers) |-> outputBuffers[i]],
        numOutputs |-> Len(outputBuffers),
        elems |-> elems] >>

\* BlockEnv.CallBlockFunction: the pointers are copied into 0-indexed FFI
\* arrays and fcn is called on them.  The value is the sequence of calls of
\* fcn the bootstrap makes, each with the arguments fcn receives.
CallBlockFunction(fcn, inputBuffers, outputBuffers, elems) ==
    LET inputBuffersFFI == [i \in 0..(Len(inputBuffers) - 1) |-> inputBuffers[i + 1]]
        outputBuffersFFI == [i \in 0..(Len(outputBuffers) - 1) |-> outputBuffers[i + 1]]
    IN  << [fcn |-> fcn,
            inputAddrs |-> inputBuffersFFI, numInputs |-> Len(inputBuffers),
            outputAddrs |-> outputBuffersFFI, numOutputs |-> Len(outputBuffers),
            elems |-> elems] >>

\* A faulty loop over the ports: only the first port is advanced.
Advance_firstOnly(cursors, elems) ==
    [k \in DOMAIN cursors |-> IF k = 1 THEN cursors[k] + elems ELSE cursors[k]]

\* input->consume(elems) for every input port, output->produce(elems) for
\* every output port.
Advance(cursors, elems) == [k \in DOMAIN cursors |-> cursors[k] + elems]

\* A faulty work(): a call that raised is made once more before the error is
\* passed on.
workInvoke_retry(elems, res) ==
    LET calls == CallBlockFunction(blockFcn, inputPointers, outputPointers, elems)
        r == safeLuaCall(res)
        raises == res.kind # "valid"
    IN  IF r.threw
        THEN /\ last' = Escaped(Outcome("work", ScriptExecutionError, "",
                                        elems, calls \o calls, raises), r)
             /\ UNCHANGED portVars
        ELSE /\ consumed' = Advance(consumed, elems)
             /\ produced' = Advance(produced, elems)
             /\ okElems' = okElems + (IF raises THEN 0 ELSE elems)
             /\ last' = Outcome("work", NoError, "", elems, calls, raises)

\* A faulty work(): the input ports are not consumed.
workInvoke_noConsume(elems, res) ==
    LET calls == CallBlockFunction(blockFcn, inputPointers, outputPointers, elems)
        r == safeLuaCall(res)
        raises == res.kind # "valid"
    IN  IF r.threw
        THEN /\ last' = Escaped(Outcome("work", ScriptExecutionError, "",
                                        elems, calls, raises), r)
             /\ UNCHANGED portVars
        ELSE /\ consumed' = consumed
             /\ produced' = Advance(produced, elems)
             /\ okElems' = okElems + (IF raises THEN 0 ELSE elems)
             /\ last' = Outcome("work", NoError, "", elems, calls, raises)

\* Lines 197-208 of work(): the bootstrap is called under safeLuaCall, and
\* the cursors are advanced once it has returned.  res: what the protected
\* call of the block function on these buffers comes to inside sol.
workInvoke(elems, res) ==
    LET calls == CallBlockFunction(blockFcn, inputPointers, outputPointers, elems)
        r == safeLuaCall(res)
        raises == res.kind # "valid"
    IN  IF r.threw
        THEN /\ last' = Escaped(Outcome("work", ScriptExecutionError, "",
                                        elems, calls, raises), r)
             /\ UNCHANGED portVars
        ELSE /\ consumed' = Advance(consumed, elems)
             /\ produced' = Advance(produced, elems)
             /\ okElems' = okElems + (IF raises THEN 0 ELSE elems)
             /\ last' = Outcome("work", NoError, "", elems, calls, raises)

\* A faulty work(): the early return on an element count of zero is missing.
work_noZeroCheck(elems, res) ==
    /\ IF ~functionSet
       THEN /\ last' = Outcome("work", NoFunctionBound, "", elems, <<>>, FALSE)
            /\ UNCHANGED portVars
       ELSE workInvoke(elems, res)
    /\ UNCHANGED <<nIn, nOut, active, everBound>>
    /\ UNCHANGED nodeVars

\* A faulty work(): the _functionSet check is missing.
work_noFunctionCheck(elems, res) ==
    /\ IF elems = 0
       THEN /\ last' = Outcome("work", NoError, "", elems, <<>>, FALSE)
            /\ UNCHANGED portVars
       ELSE workInvoke(elems, res)
    /\ UNCHANGED <<nIn, nOut, active, everBound>>
    /\ UNCHANGED nodeVars

\* work() with workInfo.minElements = elems.
work(elems, res) ==
    /\ IF ~functionSet
       THEN /\ last' = Outcome("work", NoFunctionBound, "", elems, <<>>, FALSE)
            /\ UNCHANGED portVars
       ELSE IF elems = 0
       THEN /\ last' = Outcome("work", NoError, "", elems, <<>>, FALSE)
            /\ UNCHANGED portVars
       ELSE workInvoke(elems, res)
    /\ UNCHANGED <<nIn, nOut, active, everBound>>
    /\ UNCHANGED nodeVars

\* The element count the host can offer: no more than what is left of the
\* stream on any port.
MinElements ==
    LET left == {StreamLen - okElems}
                \cup {StreamLen - consumed[i] : i \in 1..nIn}
                \cup {StreamLen - produced[j] : j \in 1..nOut}
        least == CHOOSE x \in left : \A y \in left : x <= y
    IN  IF least < 0 THEN 0 ELSE least

(***************************************************************************)
(* The host's calls.                                                       *)
(***************************************************************************)
\* What the protected call of a block function can come to: it returns, it
\* raises (an invalid result), or sol throws a sol::error.
UserResults(messages) ==
    {LuaValid(NoEnv)} \cup {LuaInvalid(m) : m \in messages}
                      \cup {LuaThrown(m) : m \in messages}

\* The runtime's messages in the plain runs, and in the runs that record them.
Messages == {"error"}
TracedMessages == {"error", "stack overflow"}

\* The host calls activate() on a block that is not active, and stops once
\* the block would hold more than MaxHandles handles.
CanActivate == ~active /\ Len(dynLibs) + Len(dynLibPaths) <= MaxHandles

\* The plain runs: nothing is recorded besides the outcome of the call.  The
\* host reaches the setters through the calls the block registered.
SetSourceCall ==
    /\ "setSource" \in registeredCalls
    /\ \E luaSource \in Sources, functionName \in Names :
            setSource(luaSource, functionName)
    /\ UNCHANGED <<obs, outData, registry, confLast, registeredCalls, other>>

SetPreloadedLibrariesCall ==
    /\ "setPreloadedLibraries" \in registeredCalls
    /\ \E libraries \in PathLists : setPreloadedLibraries(libraries)
    /\ UNCHANGED <<obs, outData, registry, confLast, registeredCalls, other>>

ActivateCall ==
    /\ CanActivate
    /\ activate
    /\ UNCHANGED <<obs, outData, registry, confLast, registeredCalls, other>>

DeactivateCall ==
    /\ deactivate
    /\ UNCHANGED <<obs, outData, registry, confLast, registeredCalls, other>>

WorkCall ==
    /\ \E elems \in 0..MinElements, res \in UserResults(Messages) : work(elems, res)
    /\ UNCHANGED <<obs, outData, registry, confLast, registeredCalls, other>>

\* The runs that record the arguments of each call of setSource and work, of
\* a host that hands over any source string and preloads no library.
SetSourceTraced ==
    /\ "setSource" \in registeredCalls
    /\ \E luaSource \in AllSources, functionName \in Names :
            /\ setSource(luaSource, functionName)
            /\ obs' = [NoObs EXCEPT !.op = "setSource", !.source = luaSource,
                                     !.name = functionName]
    /\ UNCHANGED <<outData, registry, confLast, registeredCalls, other>>

ActivateTraced ==
    /\ CanActivate
    /\ activate
    /\ obs' = NoObs
    /\ UNCHANGED <<outData, registry, confLast, registeredCalls, other>>

DeactivateTraced ==
    /\ deactivate
    /\ obs' = NoObs
    /\ UNCHANGED <<outData, registry, confLast, registeredCalls, other>>

WorkTraced ==
    /\ \E elems \in 0..MinElements, res \in UserResults(TracedMessages) :
            /\ work(elems, res)
            /\ obs' = [NoObs EXCEPT !.op = "work", !.elems = elems, !.res = res]
    /\ UNCHANGED <<outData, registry, confLast, registeredCalls, other>>

NextTraced ==
    \/ SetSourceTraced
    \/ ActivateTraced
    \/ DeactivateTraced
    \/ WorkTraced

SpecTraced == Init /\ [][NextTraced]_vars

\* The stream the host feeds to input port k (counted from 0): StreamLen
\* elements, each unlike every other element of every stream.
InputData(k) == [e \in 1..StreamLen |-> <<k, e>>]

\* The n elements at the host's pointer addr when work() is called: those of
\* the input port's stream from its read cursor on.
ReadAt(addr, n) ==
    IF addr[1] = "in" /\ addr[2] + 1 \in DOMAIN consumed
    THEN [e \in 1..n |-> InputData(addr[2])[consumed[addr[2] + 1] + e]]
    ELSE <<>>

\* What f of script S1 writes at the address addr in the call it receives:
\* it copies elems elements from inputAddrs[i] to outputAddrs[i], for every
\* i below numInputs.
CopyWrites(call, addr) ==
    LET hits == {i \in 0..(call.numInputs - 1) :
                    /\ i \in DOMAIN call.inputAddrs
                    /\ i \in DOMAIN call.outputAddrs
                    /\ call.outputAddrs[i] = addr}
    IN  IF hits = {} THEN <<>>
        ELSE ReadAt(call.inputAddrs[CHOOSE i \in hits : TRUE], call.elems)

\* The runs that record the elements produced on every output port, of a
\* host that binds the copying script and preloads no library.
SetSourceCopyCall ==
    /\ "setSource" \in registeredCalls
    /\ \E luaSource \in CopySources, functionName \in Names :
            setSource(luaSource, functionName)
    /\ UNCHANGED <<obs, outData, registry, confLast, registeredCalls, other>>

WorkData ==
    /\ \E elems \in 0..MinElements, res \in UserResults(Messages) : work(elems, res)
    /\ outData' =
          [j \in 1..nOut |->
              IF last'.err = NoError /\ last'.calls # <<>>
              THEN LET written == CopyWrites(last'.calls[1], outputPointers[j])
                       count == produced'[j] - produced[j]
                   IN  outData[j] \o [e \in 1..count |-> written[e]]
              ELSE outData[j]]
    /\ UNCHANGED <<obs, registry, confLast, registeredCalls, other>>

NextData ==
    \/ SetSourceCopyCall
    \/ ActivateCall
    \/ DeactivateCall
    \/ WorkData

SpecData == InitData /\ [][NextData]_vars

\* The runs of a host whose sources assign global variables.
SetSourceGlobalsCall ==
    /\ "setSource" \in registeredCalls
    /\ \E luaSource \in GlobalSources, functionName \in Names :
            setSource(luaSource, functionName)
    /\ UNCHANGED <<obs, outData, registry, confLast, registeredCalls, other>>

NextGlobals ==
    \/ SetSourceGlobalsCall
    \/ ActivateCall
    \/ DeactivateCall
    \/ WorkCall

SpecGlobals == Init /\ [][NextGlobals]_vars

\* A conf loader call that threw before it registered anything.
ConfFailed(err, detail) ==
    [err |-> err, detail |-> detail, added |-> {}, docFile |-> "none"]

\* The last steps of LuaJITConfLoader (lines 148-167): the documentation
\* file is parsed, the block factory is registered, and then the
\* documentation of the factory, which the parser must have found.
RegisterConf(factory, docFile, docHasFactory) ==
    IF docHasFactory
    THEN [err |-> NoError, detail |-> "", docFile |-> docFile,
          added |-> {<<"/blocks", factory>>, <<"/blocks/docs", factory>>}]
    ELSE [err |-> DocNotFound, detail |-> factory, docFile |-> docFile,
          added |-> {<<"/blocks", factory>>}]

\* Lines 134-146: the file the documentation is parsed from.  With the key
\* doc_source its path is built from sourceIter->second (line 139), the value
\* of source, and without it it is the source file path (line 146); the
\* existence test of line 140 is made on that path, which line 108 has
\* tested already.
DocSourceFile(config) ==
    IF "doc_source" \in config.keys THEN "source" ELSE "source"

\* A faulty conf loader: the block factory is registered as soon as the key
\* factory is read.
LuaJITConfLoader_registerEarly(config) ==
    LET has(k) == k \in config.keys
        early(r) == [r EXCEPT !.added = @ \cup {<<"/blocks", config.factory>>}]
    IN  IF ~has("confFilePath") THEN ConfFailed(MissingKey, "No conf filepath")
        ELSE IF ~has("factory") THEN ConfFailed(MissingKey, "No factory")
        ELSE IF ~ValidPluginPath(config.factory)
        THEN ConfFailed(InvalidFactoryPath, config.factory)
        ELSE IF ~has("source") THEN early(ConfFailed(MissingKey, "No source"))
        ELSE IF ~config.sourceExists THEN early(ConfFailed(SourceNotFound, "source"))
        ELSE IF ~has("function") THEN early(ConfFailed(MissingKey, "No function name"))
        ELSE IF ~has("input_types") THEN early(ConfFailed(MissingKey, "No input types"))
        ELSE IF ~has("output_types") THEN early(ConfFailed(MissingKey, "No output types"))
        ELSE RegisterConf(config.factory, "source", config.docHasFactory)

\* LuaJITConfLoader(config): the keys are read in the order of the code and
\* the first check that fails throws.  With the key doc_source the path of
\* the documentation file is built from the value of source (line 139), as it
\* is without it (line 146), so that the file exists.  The value is the
\* error thrown, its detail, the file parsed for documentation and the
\* registry paths added.
LuaJITConfLoader(config) ==
    LET has(k) == k \in config.keys
    IN  IF ~has("confFilePath") THEN ConfFailed(MissingKey, "No conf filepath")
        ELSE IF ~has("factory") THEN ConfFailed(MissingKey, "No factory")
        ELSE IF ~ValidPluginPath(config.factory)
        THEN ConfFailed(InvalidFactoryPath, config.factory)
        ELSE IF ~has("source") THEN ConfFailed(MissingKey, "No source")
        ELSE IF ~config.sourceExists THEN ConfFailed(SourceNotFound, "source")
        ELSE IF ~has("function") THEN ConfFailed(MissingKey, "No function name")
        ELSE IF ~has("input_types") THEN ConfFailed(MissingKey, "No input types")
        ELSE IF ~has("output_types") THEN ConfFailed(MissingKey, "No output types")
        ELSE RegisterConf(config.factory, DocSourceFile(config), config.docHasFactory)

\* The framework hands a configuration file to the loader; it does not load
\* a factory whose paths are registered already.
LoadConfCall ==
    /\ \E config \in Configs :
            /\ <<"/blocks", config.factory>> \notin registry
            /\ <<"/blocks/docs", config.factory>> \notin registry
            /\ LET r == LuaJITConfLoader(config)
               IN  /\ registry' = registry \cup r.added
                   /\ confLast' = [op |-> "load", err |-> r.err, detail |-> r.detail,
                                   added |-> r.added, docFile |-> r.docFile,
                                   config |-> config]
    /\ UNCHANGED blockVars
    /\ UNCHANGED <<obs, outData, registeredCalls, other>>

NextConf == LoadConfCall

\* The block a factory of the registry makes is not part of these runs.
InitConf == Constructed(0, 0, TRUE)

SpecConf == InitConf /\ [][NextConf]_vars

\* A configuration with every key, and the record of its load.
LoadedConfig ==
    [keys |-> ConfKeys, factory |-> "/my/block", sourceExists |-> TRUE,
     docHasFactory |-> TRUE]
LoadedConf ==
    LET r == LuaJITConfLoader(LoadedConfig)
    IN  [op |-> "load", err |-> r.err, detail |-> r.detail, added |-> r.added,
         docFile |-> r.docFile, config |-> LoadedConfig]

\* The paths under which the block source of a loaded configuration reaches
\* setSource: the file existed when the configuration was loaded, and the
\* path is no Lua text.
ConfSources == {s \in AllSources : s.exists /\ s.text = "SBad"}

\* The factory /blocks/luajit_block of the registry: LuaJITBlock::make with
\* exposeSetters bound to true.  The host makes blocks of the port counts of
\* its topology.
MakeCall ==
    /\ BlockFactoryPath \in registry
    /\ Becomes(LuaJITBlock(nIn, nOut, TRUE))
    /\ UNCHANGED <<obs, outData, registry, confLast, other>>

\* opaqueLuaJITBlockFactory, the factory a loaded configuration registers:
\* the block is made with exposeSetters false, setSource is called on it
\* with the source path and function name of the configuration, and the
\* block is returned when that call returns; an exception of setSource
\* leaves the factory, and no block is returned.
OpaqueFactoryCall ==
    /\ \E path \in registry : path[1] = "/blocks" /\ path # BlockFactoryPath
    /\ BlockFactoryPath \in registry
    /\ \E luaSource \in ConfSources, functionName \in Names :
          LET made == LuaJITBlock(nIn, nOut, FALSE)
              loaded == LoadSource(luaSource)
              found == LookupEntryPoint(loaded.value, functionName)
          IN  IF loaded.err # NoError
              THEN /\ last' = IF loaded.thrown.threw
                              THEN Escaped(Threw("opaqueLuaJITBlockFactory",
                                                 loaded.err, ""), loaded.thrown)
                              ELSE Threw("opaqueLuaJITBlockFactory", loaded.err, "")
                   /\ UNCHANGED <<nIn, nOut, active, everBound, registeredCalls>>
                   /\ UNCHANGED nodeVars
                   /\ UNCHANGED portVars
              ELSE IF found.err # NoError
              THEN /\ last' = Threw("opaqueLuaJITBlockFactory", found.err,
                                    found.detail)
                   /\ UNCHANGED <<nIn, nOut, active, everBound, registeredCalls>>
                   /\ UNCHANGED nodeVars
                   /\ UNCHANGED portVars
              ELSE Becomes([made EXCEPT
                              !.userEnv = loaded.value,
                              !.globals = GlobalsAssigned(loaded.value),
                              !.blockFcn = found.fcn,
                              !.functionSet = TRUE,
                              !.everBound = TRUE,
                              !.last = Returned("opaqueLuaJITBlockFactory")])
    /\ UNCHANGED <<obs, outData, registry, confLast, other>>

\* The runs of a host that makes blocks through both factories, after the
\* configuration LoadedConfig has been loaded, and that binds the script S1
\* on the blocks whose setters are registered.
InitFactory ==
    /\ \E inputs \in 0..MaxInputs, outputs \in 0..MaxOutputs :
          /\ Holds(LuaJITBlock(inputs, outputs, TRUE))
          /\ outData = [j \in 1..outputs |-> <<>>]
    /\ obs = NoObs
    /\ registry = {BlockFactoryPath} \cup LoadedConf.added
    /\ confLast = LoadedConf
    /\ other = NoNode

NextFactory ==
    \/ MakeCall
    \/ OpaqueFactoryCall
    \/ SetSourceCopyCall
    \/ SetPreloadedLibrariesCall
    \/ ActivateCall
    \/ DeactivateCall
    \/ WorkCall

SpecFactory == InitFactory /\ [][NextFactory]_vars

\* The script state of the block under observation, as the members of
\* another block of the process.
Members ==
    [made |-> TRUE, globals |-> globals, userEnv |-> userEnv,
     blockFcn |-> blockFcn, functionSet |-> functionSet,
     dynLibPaths |-> dynLibPaths, dynLibs |-> dynLibs]

\* The host constructs a second block while the first one is active with a
\* function bound, the global X assigned by its script and one handle of
\* libA held: the first block stays in the process with its members, and the
\* new block is the one under observation from here on.  loadedCount counts
\* the Poco::SharedLibrary objects of the whole process.
SwitchNode ==
    /\ ~other.made
    /\ active /\ functionSet
    /\ globals = {"X"}
    /\ dynLibs = <<"libA">>
    /\ other' = Members
    /\ Becomes([LuaJITBlock(nIn, nOut, TRUE) EXCEPT !.loadedCount = loadedCount])
    /\ UNCHANGED <<obs, outData, registry, confLast>>

\* The runs of a host with two blocks, which binds scripts that assign
\* globals.
InitNodes == Constructed(1, 1, TRUE)

NextNodes ==
    \/ SwitchNode
    \/ SetSourceGlobalsCall
    \/ SetPreloadedLibrariesCall
    \/ ActivateCall
    \/ DeactivateCall
    \/ WorkCall

SpecNodes == InitNodes /\ [][NextNodes]_vars

Next ==
    \/ SetSourceCall
    \/ SetPreloadedLibrariesCall
    \/ ActivateCall
    \/ DeactivateCall
    \/ WorkCall

Spec == Init /\ [][Next]_vars

(***************************************************************************)
(* Properties.                                                             *)
(***************************************************************************)
NoneLoaded == \A p \in LibPaths : loadedCount[p] = 0

\* C1: on an active node, setSource and setPreloadedLibraries fail with the
\* invalid-state error and leave the node active with its entry point, user
\* environment, pending paths and library handles as they were; a work() that
\* follows the rejected call invokes the binding the node had before it.
C1_ActiveSettersRejected ==
    [][ /\ (active /\ last'.op \in Setters)
           => /\ last'.err = InvalidState
              /\ active'
              /\ UNCHANGED nodeVars
        /\ (/\ active /\ functionSet
            /\ last.op \in Setters /\ last.err = InvalidState
            /\ last'.op = "work" /\ last'.elems > 0)
           => /\ Len(last'.calls) = 1
              /\ last'.calls[1].fcn = blockFcn ]_vars

C1_Witness ==
    /\ active /\ functionSet /\ dynLibs # <<>>
    /\ last.op = "setSource" /\ last.err = InvalidState

\* C2: a work() call whose block function raises propagates the error and
\* advances no input cursor and no output cursor, whatever the port counts.
C2_ErrorIsolation ==
    [][ (last'.op = "work" /\ last'.raised)
        => /\ last'.err = ScriptExecutionError
           /\ UNCHANGED <<consumed, produced>> ]_vars

C2_Witness ==
    /\ last.op = "work" /\ last.raised /\ last.err = ScriptExecutionError
    /\ nIn = 2 /\ nOut = 1 /\ okElems = 1

\* C3 as stated: work() with an element count of zero raises no error,
\* changes no state and invokes nothing, in every state.
C3_ZeroIsNoOpEverywhere ==
    [][ (last'.op = "work" /\ last'.elems = 0)
        => /\ last'.err = NoError
           /\ last'.calls = <<>>
           /\ UNCHANGED <<nodeVars, portVars, active>> ]_vars

\* C3: once a function is set, work() with an element count of zero raises no
\* error, changes no state and invokes nothing; with no function set it
\* throws the no-function-bound error, and changes and invokes nothing.
C3_ZeroIsNoOpWhenBound ==
    [][ (last'.op = "work" /\ last'.elems = 0)
        => /\ last'.err = (IF functionSet THEN NoError ELSE NoFunctionBound)
           /\ last'.calls = <<>>
           /\ UNCHANGED <<nodeVars, portVars, active>> ]_vars

C3_Witness ==
    /\ last.op = "work" /\ last.elems = 0 /\ last.err = NoError
    /\ functionSet /\ active /\ okElems = 1 /\ nIn = 1 /\ nOut = 1

\* C4: while no setSource has succeeded every work() fails with the
\* no-function-bound error, invokes nothing and advances no cursor; once one
\* has succeeded no work() fails with that error.
C4_NoFunctionBound ==
    [][ (last'.op = "work")
        => IF everBound
           THEN last'.err # NoFunctionBound
           ELSE /\ last'.err = NoFunctionBound
                /\ last'.calls = <<>>
                /\ UNCHANGED portVars ]_vars

C4_Witness ==
    /\ last.op = "work" /\ last.err = NoFunctionBound /\ last.elems > 0
    /\ ~everBound /\ userEnv # NoEnv /\ active

\* C5: once a setSource has succeeded, a work() call with an element count
\* above zero invokes the bound function exactly once.
C5_InvokedExactlyOnce ==
    (last.op = "work" /\ everBound /\ last.elems > 0)
    => /\ Len(last.calls) = 1
       /\ last.calls[1].fcn = blockFcn
       /\ blockFcn # NoFcn
       /\ FieldType(blockFcn.src, blockFcn.name) = "function"

C5_Witness ==
    /\ last.op = "work" /\ last.elems > 0 /\ Len(last.calls) = 1
    /\ blockFcn = [src |-> "S2", name |-> "g"]

\* C6: the elements consumed on every input port and produced on every
\* output port all equal the sum of the element counts of the work() calls
\* whose block function returned without error.
C6_CursorsEqualOkElems ==
    /\ \A i \in 1..nIn : consumed[i] = okElems
    /\ \A j \in 1..nOut : produced[j] = okElems

C6_Witness ==
    /\ nIn = 2 /\ nOut = 1
    /\ consumed[1] = StreamLen /\ consumed[2] = StreamLen /\ produced[1] = StreamLen

\* The type of the field the last setSource looked up in the source it loaded.
TypeLookedUp(outcome) == FieldType(outcome.loaded, outcome.lookedUp)

\* C7: a setSource on an idle node whose loaded source has no field of the
\* given name fails with the entry-point-not-found error and changes nothing:
\* lifecycle state, function-set flag, bound function and user environment.
C7_NotFoundChangesNothing ==
    [][ (/\ ~active /\ last'.op = "setSource" /\ last'.lookedUp # "none"
         /\ TypeLookedUp(last') = "nil")
        => /\ last'.err = EntryPointNotFound
           /\ UNCHANGED <<active, functionSet, blockFcn, userEnv>> ]_vars

\* C8: a setSource on an idle node whose loaded source has the named field
\* with a type other than function fails with the entry-point-not-callable
\* error naming the type found, and replaces neither the bound function nor
\* the function-set flag; a missing field is reported as not found, and a
\* setSource that returns has looked up a function.
C8_NotCallable ==
    [][ (~active /\ last'.op = "setSource")
        => /\ (last'.lookedUp # "none" /\ TypeLookedUp(last') \notin {"nil", "function"})
              => /\ last'.err = EntryPointNotCallable
                 /\ last'.detail = TypeLookedUp(last')
                 /\ UNCHANGED <<blockFcn, functionSet>>
           /\ (last'.lookedUp # "none" /\ TypeLookedUp(last') = "nil")
              => last'.err = EntryPointNotFound
           /\ (last'.err = NoError)
              => /\ last'.lookedUp # "none"
                 /\ TypeLookedUp(last') = "function" ]_vars

C8_Witness ==
    /\ last.op = "setSource" /\ last.err = EntryPointNotCallable
    /\ last.loaded = "S1" /\ last.lookedUp = "g" /\ last.detail = "number"
    /\ functionSet /\ blockFcn = [src |-> "S2", name |-> "g"]

\* C9: when a library fails to load during activate(), activate() fails and
\* the node is left holding no loaded library.
C9_AllOrNothing ==
    (last.op = "activate" /\ last.err # NoError)
    => (dynLibs = <<>> /\ NoneLoaded /\ ~active)

\* C10: deactivate() leaves the node holding no library handle, with every
\* library it had loaded unloaded, and keeps the entry point and the pending
\* path list.
C10_DeactivateReleasesAll ==
    [][ (last'.op = "deactivate")
        => /\ dynLibs' = <<>>
           /\ \A p \in LibPaths : loadedCount'[p] = 0
           /\ ~active'
           /\ UNCHANGED <<functionSet, blockFcn, userEnv, dynLibPaths>> ]_vars

C10_Witness ==
    /\ last.op = "deactivate" /\ last.released = 2 /\ functionSet
    /\ dynLibPaths = <<"libA", "libA">> /\ dynLibs = <<>> /\ NoneLoaded

\* C11: libraries are loaded by activate() alone and unloaded by deactivate()
\* alone; while the node stays active the handles it holds are those of the
\* pending path list, and no call changes them.
C11_LoadedOnlyWhileActive ==
    [][ /\ (Len(dynLibs') > Len(dynLibs)) => last'.op = "activate"
        /\ (Len(dynLibs') < Len(dynLibs)) => last'.op = "deactivate"
        /\ (loadedCount' # loadedCount) => last'.op \in {"activate", "deactivate"}
        /\ active' => dynLibs' = dynLibPaths'
        /\ (active /\ active') => UNCHANGED <<dynLibs, dynLibPaths, loadedCount>> ]_vars

\* C15: a work() whose block function raised leaves the node active with its
\* binding, pending paths and libraries, has invoked the function once, and
\* a work() after it whose function returns advances every cursor by its
\* element count.
C15_FailedWorkKeepsNode ==
    [][ /\ (last'.op = "work" /\ last'.raised)
           => /\ active' = active
              /\ UNCHANGED nodeVars
              /\ Len(last'.calls) = 1
              /\ last'.calls[1].fcn = blockFcn
        /\ (/\ last.op = "work" /\ last.raised
            /\ last'.op = "work" /\ last'.elems > 0 /\ ~last'.raised)
           => /\ last'.err = NoError
              /\ Len(last'.calls) = 1
              /\ \A i \in 1..nIn : consumed'[i] = consumed[i] + last'.elems
              /\ \A j \in 1..nOut : produced'[j] = produced[j] + last'.elems ]_vars

C15_Witness ==
    /\ last.op = "work" /\ last.raised /\ last.err = ScriptExecutionError
    /\ active /\ functionSet /\ dynLibs = <<"libA", "libA">>
    /\ nIn = 2 /\ nOut = 1 /\ okElems < StreamLen

\* C18: the block function receives numInputs and numOutputs equal to the
\* port counts, at index k of each address array the host's pointer of port
\* k, and the host's element count.
C18_MarshallingKeepsOrder ==
    (last.op = "work" /\ last.calls # <<>>)
    => \A c \in 1..Len(last.calls) :
          LET call == last.calls[c]
          IN  /\ call.numInputs = nIn
              /\ call.numOutputs = nOut
              /\ DOMAIN call.inputAddrs = 0..(nIn - 1)
              /\ DOMAIN call.outputAddrs = 0..(nOut - 1)
              /\ \A k \in 0..(nIn - 1) : call.inputAddrs[k] = <<"in", k>>
              /\ \A k \in 0..(nOut - 1) : call.outputAddrs[k] = <<"out", k>>
              /\ call.elems = last.elems

C18_Witness ==
    /\ last.op = "work" /\ Len(last.calls) = 1
    /\ nIn = 2 /\ nOut = 1 /\ last.elems = 2

\* C19: after a setSource that returned, every work() invokes the function
\* that call bound; and the bound function never belongs to a source other
\* than the one loaded as the user environment.
C19_RebindingIsWhole ==
    [][ /\ (last'.op = "setSource" /\ last'.err = NoError)
           => blockFcn' = [src |-> last'.loaded, name |-> last'.lookedUp]
        /\ (last'.op = "work" /\ last'.calls # <<>>)
           => \A c \in 1..Len(last'.calls) : last'.calls[c].fcn = blockFcn
        /\ (last'.op # "setSource") => blockFcn' = blockFcn
        /\ functionSet' => blockFcn'.src = userEnv' ]_vars

\* The source string that is the literal text of a script.
Literal(text) == [ext |-> FALSE, exists |-> FALSE, text |-> text, content |-> text]

\* The outcome of the last setSource is that of running the chunk of text.
RanScript(text) ==
    IF RunChunk(text).kind = "valid"
    THEN /\ last.loaded = text
         /\ userEnv = text
         /\ last.err \in {NoError, EntryPointNotFound, EntryPointNotCallable}
    ELSE /\ last.loaded = NoEnv
         /\ last.err = ScriptLoadError

C16_ErrorsConverted ==
    /\ last.exception # "sol::error"
    /\ (obs.op = "work" /\ last.calls # <<>>)
       => IF obs.res.kind = "valid"
          THEN last.err = NoError
          ELSE /\ last.err = ScriptExecutionError
               /\ last.exception = "Pothos::Exception"
               /\ last.detail = obs.res.what
    /\ (obs.op = "setSource" /\ last.err \notin {InvalidState, SourceNotFound})
       => LET raw == RunChunk(IF obs.source.ext THEN obs.source.content
                              ELSE obs.source.text)
          IN  IF raw.kind = "valid"
              THEN last.loaded = raw.value /\ last.err # ScriptLoadError
              ELSE /\ last.err = ScriptLoadError
                   /\ last.exception = "Pothos::Exception"
                   /\ last.detail = raw.what

C16_Witness ==
    /\ obs.op = "work" /\ obs.res = LuaThrown("stack overflow")
    /\ last.err = ScriptExecutionError /\ last.exception = "Pothos::Exception"
    /\ last.detail = "stack overflow" /\ Len(last.calls) = 1

\* C20: no name a user source assigns as a global is in the runtime's global
\* namespace after setSource, where a source loaded later would see it; the
\* global BlockEnv of the bootstrap is not assigned by a user source.
C20_UserGlobalsStayOut ==
    \A text \in Scripts \cup GlobalScripts : globals \cap GlobalsAssigned(text) = {}

\* C14: on a block with as many outputs as inputs whose function copies
\* input i to output i, after work() calls that together processed N
\* elements, in whatever chunks, the stream produced on every output port
\* is the first N elements of the stream fed to the input port of its index.
C14_CopyRoundTrip ==
    \A j \in 1..nOut :
        /\ Len(outData[j]) = okElems
        /\ \A e \in 1..okElems : outData[j][e] = InputData(j - 1)[e]

C14_Witness ==
    /\ nIn = 2 /\ nOut = 2 /\ okElems = StreamLen
    /\ last.op = "work" /\ last.elems = 1 /\ last.err = NoError
    /\ outData[2] = InputData(1)

\* The key the message of a missing-key error names.
KeyNamed(detail) ==
    CASE detail = "No conf filepath" -> "confFilePath"
      [] detail = "No factory" -> "factory"
      [] detail = "No source" -> "source"
      [] detail = "No function name" -> "function"
      [] detail = "No input types" -> "input_types"
      [] detail = "No output types" -> "output_types"
      [] OTHER -> "none"

\* The order in which the loader reads the required keys.
KeyOrder == <<"factory", "source", "function", "input_types", "output_types">>

\* Every check the loader makes before it looks for the i-th required key
\* passes on config.
ChecksPassBefore(config, i) ==
    /\ "confFilePath" \in config.keys
    /\ \A h \in 1..(i - 1) : KeyOrder[h] \in config.keys
    /\ i > 1 => ValidPluginPath(config.factory)
    /\ i > 2 => config.sourceExists

\* A load that failed for a missing key or a source file that does not exist
\* adds nothing to the registry, and both paths of a factory are added by
\* loads of a configuration with every required key and an existing source.
RegisteredAfterValidation ==
    /\ confLast'.err \in {MissingKey, SourceNotFound}
       => registry' = registry /\ confLast'.added = {}
    /\ registry' # registry
       => /\ RequiredKeys \subseteq confLast'.config.keys
          /\ confLast'.config.sourceExists
          /\ registry' \ registry \subseteq
                {<<"/blocks", confLast'.config.factory>>,
                 <<"/blocks/docs", confLast'.config.factory>>}
    /\ confLast'.err = NoError
       => registry' \ registry = {<<"/blocks", confLast'.config.factory>>,
                                  <<"/blocks/docs", confLast'.config.factory>>}

\* C17 as stated: a load of a configuration that lacks a required key fails
\* with an error that names that key, whatever else the configuration
\* lacks; failed loads register nothing and registration follows validation.
C17_EveryMissingKeyNamed ==
    [][ confLast'.op = "load"
        => /\ \A k \in RequiredKeys :
                 k \notin confLast'.config.keys
                 => /\ confLast'.err = MissingKey
                    /\ KeyNamed(confLast'.detail) = k
           /\ RegisteredAfterValidation ]_vars

\* C17: a load of a configuration that lacks a required key fails, with an
\* error that names that key when every check before it passes (the error
\* is that of the first check that fails); failed loads register nothing and
\* registration follows validation.
C17_FirstMissingKeyNamed ==
    [][ confLast'.op = "load"
        => /\ \A i \in 1..Len(KeyOrder) :
                 KeyOrder[i] \notin confLast'.config.keys
                 => /\ confLast'.err # NoError
                    /\ registry' = registry
                    /\ ChecksPassBefore(confLast'.config, i)
                       => /\ confLast'.err = MissingKey
                          /\ KeyNamed(confLast'.detail) = KeyOrder[i]
           /\ RegisteredAfterValidation ]_vars

C17_Witness ==
    /\ confLast.op = "load" /\ confLast.err = MissingKey
    /\ confLast.detail = "No function name"
    /\ confLast.config.keys = ConfKeys \ {"function", "output_types"}
    /\ confLast.config.sourceExists
    /\ <<"/blocks", "/other/block">> \in registry
    /\ <<"/blocks", confLast.config.factory>> \notin registry

\* C22: whenever the node is active an entry point is bound.
C22_ActiveImpliesBound == active => functionSet

\* The handles a step added to those the node held.
NewHandles == [h \in 1..(Len(dynLibs') - Len(dynLibs)) |-> dynLibs'[Len(dynLibs) + h]]

\* C23: on an idle node setPreloadedLibraries(paths) makes paths the pending
\* list, loads nothing, leaves no handle held and leaves the binding as it
\* was; the pending list changes at no other call, and an activate() that
\* returns has loaded exactly the pending list, in its order.
C23_PendingListReplaced ==
    [][ /\ (~active /\ last'.op = "setPreloadedLibraries")
           => /\ last'.err = NoError
              /\ dynLibPaths' = last'.paths
              /\ dynLibs' = <<>>
              /\ \A p \in LibPaths : loadedCount'[p] = 0
              /\ UNCHANGED <<functionSet, blockFcn, userEnv, active>>
        /\ (last'.op # "setPreloadedLibraries" \/ last'.err # NoError)
           => dynLibPaths' = dynLibPaths
        /\ (last'.op = "activate" /\ last'.err = NoError)
           => /\ Len(dynLibs') >= Len(dynLibs)
              /\ NewHandles = dynLibPaths ]_vars

C23_Witness ==
    /\ last.op = "setPreloadedLibraries" /\ last.err = NoError
    /\ last.released = 1 /\ last.paths = <<"libA", "libA">>
    /\ dynLibPaths = <<"libA", "libA">> /\ dynLibs = <<>>
    /\ functionSet /\ ~active

\* The number of entries of the sequence q that are x.
Count(q, x) == Cardinality({i \in 1..Len(q) : q[i] = x})

\* C24: the node holds at most one handle per entry of its pending list: no
\* more handles than the list has entries, and of no library more handles
\* than the list names it.
C24_HandlesWithinPendingList ==
    /\ Len(dynLibs) <= Len(dynLibPaths)
    /\ \A p \in LibPaths : Count(dynLibs, p) <= Count(dynLibPaths, p)

\* C25: a load that succeeds has parsed the documentation from the file
\* the key doc_source names when the configuration has that key, and from
\* the source file only when it has not.
C25_DocFromDocSource ==
    (confLast.op = "load" /\ confLast.err = NoError)
    => confLast.docFile = IF "doc_source" \in confLast.config.keys
                          THEN "doc_source" ELSE "source"

\* The calls that make a block.
Makers == {"make", "opaqueLuaJITBlockFactory"}

\* C26: a block made by the factory /blocks/luajit_block has both setters
\* registered; a block the factory of a configuration returns has none, and
\* has its entry point bound; the registered calls of a block never change;
\* and on a block without registered setters no call is a setter and none
\* changes the binding, the user environment or the pending library paths.
C26_SettersExposedOnRequest ==
    [][ /\ last'.op = "make" => registeredCalls' = Setters
        /\ (last'.op = "opaqueLuaJITBlockFactory" /\ last'.err = NoError)
           => /\ registeredCalls' = {}
              /\ functionSet' /\ blockFcn' # NoFcn /\ blockFcn'.src = userEnv'
              /\ dynLibPaths' = <<>> /\ ~active'
        /\ (last'.op = "opaqueLuaJITBlockFactory" /\ last'.err # NoError)
           => UNCHANGED <<registeredCalls, functionSet, blockFcn, userEnv,
                          dynLibPaths, dynLibs, active>>
        /\ last'.op \notin Makers => registeredCalls' = registeredCalls
        /\ (registeredCalls = {} /\ last'.op \notin Makers)
           => /\ last'.op \notin Setters
              /\ UNCHANGED <<functionSet, blockFcn, userEnv, dynLibPaths>> ]_vars

C26_Witness ==
    /\ registeredCalls = {} /\ active /\ functionSet
    /\ blockFcn = [src |-> "S2", name |-> "g"]
    /\ last.op = "work" /\ last.err = NoError /\ okElems = StreamLen
    /\ nIn = 2

\* C21: while another block exists in the process, no step of the block
\* under observation (its construction, setSource, setPreloadedLibraries,
\* activate, deactivate, work, returning or throwing) changes the other
\* block's script globals, user environment, bound function, function-set
\* flag, pending library paths or handles, and every library the other block
\* holds a handle of stays loaded; the construction of the second block
\* leaves the first with the members it had.
C21_NodesIsolated ==
    [][ /\ other.made
           => /\ other' = other
              /\ \A p \in LibPaths : loadedCount'[p] >= Count(other.dynLibs, p)
        /\ (~other.made /\ other'.made)
           => /\ other'.globals = globals /\ other'.userEnv = userEnv
              /\ other'.blockFcn = blockFcn /\ other'.functionSet = functionSet
              /\ other'.dynLibPaths = dynLibPaths /\ other'.dynLibs = dynLibs
              /\ loadedCount' = loadedCount
              /\ globals' = {} /\ userEnv' = NoEnv /\ ~functionSet'
              /\ dynLibs' = <<>> ]_vars

C21_Witness ==
    /\ other.made /\ other.globals = {"X"} /\ other.functionSet
    /\ other.dynLibs = <<"libA">>
    /\ globals = {"BlockEnv"} /\ userEnv = "SClobber"
    /\ last.op = "deactivate" /\ last.released = 1
    /\ loadedCount["libA"] = 1

=============================================================================
